---- MODULE Spec2Model ----
(***************************************************************************)
(* pagecrawl (src/main.go): a coordinator reads lines from standard input, *)
(* starts one goroutine per accepted line, each goroutine fetches the      *)
(* page, extracts the href attributes of the parsed document and writes    *)
(* the JSON record of the asset to every registered output in order.       *)
(*                                                                         *)
(* Three specifications share the module:                                  *)
(*   Spec         the concurrent fetch / emit pipeline (main, fetch, Write)*)
(*   SpecNoFlags  the pipeline started without flags, reading any line     *)
(*   SpecCrawl    the pure function crawl applied to bounded document trees*)
(*                                                                         *)
(* Not modelled: the wall-clock value of asset.Accessed, the text of log   *)
(* messages beyond their kind, the viper configuration file.               *)
(***************************************************************************)
EXTENDS Integers, Sequences, FiniteSets, TLC

VARIABLES
    mainPc,        \* position of main: "startup", "reading", "wait", "exited"
    shouldCache,   \* package variable shouldCache
    outputs,       \* package variable outputs: the registered io.Writers, in order
    scanned,       \* tokens bufio.Scanner has returned so far, with Err() at that time
    scanErr,       \* the Scanner's sticky non-EOF error
    group,         \* the sync.WaitGroup counter
    tasks,         \* one record per goroutine started by main, in dispatch order
    sinks,         \* what each output has received: file bytes / HTTP requests
    exitStatus,    \* NoExit while the process runs, then its exit status
    mainLog,       \* kinds of the messages main has logged
    args,          \* the list flag.Args() returned to main
    cdoc,          \* SpecCrawl: the document tree handed to crawl
    crefs,         \* SpecCrawl: the slice crawl returned
    ccrawled       \* SpecCrawl: crefs is the result for the current cdoc

pipeVars  == <<mainPc, shouldCache, outputs, scanned, scanErr, group, tasks,
               sinks, exitStatus, mainLog, args>>
crawlVars == <<cdoc, crefs, ccrawled>>
vars      == <<mainPc, shouldCache, outputs, scanned, scanErr, group, tasks,
               sinks, exitStatus, mainLog, args, cdoc, crefs, ccrawled>>

----------------------------------------------------------------------------
(* Bounds *)

MaxTasks == 2      \* goroutines main starts in one run
MaxErrLines == 1   \* tokens the Scanner returns after its reader failed
MaxNodes == 3      \* nodes of a document tree in SpecCrawl
MaxAttrs == 2      \* attributes of a whole document tree in SpecCrawl

NoExit == 0 - 1    \* exitStatus of a process that has not exited

----------------------------------------------------------------------------
(* Strings as sequences of one-character strings, so that strings.ToLower  *)
(* is a computation.                                                       *)

IdentityChar(c) == c

\* strings.ToLower, one character
LowerChar(c) ==
    CASE c = "H" -> "h"
      [] c = "R" -> "r"
      [] c = "E" -> "e"
      [] c = "F" -> "f"
      [] c = "A" -> "a"
      [] c = "B" -> "b"
      [] c = "X" -> "x"
      [] OTHER   -> c

ToLower(s) == [i \in 1..Len(s) |-> LowerChar(s[i])]

HrefLit == <<"h", "r", "e", "f">>

----------------------------------------------------------------------------
(* Document trees: a node is [Data |-> tag name, Attr |-> sequence of      *)
(* [Key, Val], Kids |-> sequence of nodes]; Kids stands for the            *)
(* FirstChild / NextSibling chain of html.Node.                            *)

Node(tag, attrs, kids) == [Data |-> tag, Attr |-> attrs, Kids |-> kids]

Leaf(attrs) == Node("", attrs, <<>>)

RECURSIVE ConcatAll(_)
ConcatAll(ss) ==
    IF ss = <<>> THEN <<>> ELSE Head(ss) \o ConcatAll(Tail(ss))

MatchingVals(attrs) ==
    LET F[i \in 0..Len(attrs)] ==
            IF i = 0 THEN <<>>
            ELSE IF ToLower(attrs[i].Key) = HrefLit
                 THEN Append(F[i - 1], attrs[i].Val)
                 ELSE F[i - 1]
    IN  F[Len(attrs)]

RECURSIVE crawlKidsFirst(_)
crawlKidsFirst(doc) ==
    ConcatAll([k \in 1..Len(doc.Kids) |-> crawlKidsFirst(doc.Kids[k])])
        \o MatchingVals(doc.Attr)

RECURSIVE crawl(_)
crawl(doc) ==
    MatchingVals(doc.Attr)
        \o ConcatAll([k \in 1..Len(doc.Kids) |-> crawl(doc.Kids[k])])

----------------------------------------------------------------------------
(* The environment: what standard input, the network and the file system   *)
(* can hand to the program.                                                *)

userAgent == "pagecrawl; 0.1.0"
FromValue == ""                       \* viper default of Network.From

GoodURL  == "http://a"
BadURL   == ":"                       \* http.NewRequest: missing protocol scheme
Sentinel == "quit"
EmptyLine  == ""
UpperQuit  == "QUIT"
PaddedQuit == " quit "
\* the lines standard input can hold
Lines    == {GoodURL, BadURL, Sentinel}
AllLines == Lines \cup {EmptyLine, UpperQuit, PaddedQuit}
ErrLines == {GoodURL}                 \* tokens left in the buffer of a failed reader

BodyEmpty == <<>>
BodyLinks == <<"<a href=/x>", "<link HREF=y>">>
BodyDeep  == <<"<div><div><div>...">>  \* a body html.Parse gives up on
Bodies    == {BodyEmpty, BodyLinks, BodyDeep}

\* what a server can answer: the status code is free, the client does not
\* look at it
Responses ==
    { [status |-> 200, body |-> BodyLinks],
      [status |-> 500, body |-> BodyEmpty],
      [status |-> 200, body |-> BodyDeep] }

Attribute(k, v) == [Key |-> k, Val |-> v]

\* http.NewRequest parses the URL and fails on a malformed one.
ValidURL(u) == u # BadURL

\* client.Do sends only a request whose URL has a scheme it supports
HasScheme(u) == u = GoodURL

\* the nil *html.Node
NilDoc == Node("<nil>", <<>>, <<>>)

\* html.Parse: the tree the tolerant parser builds for a body; when it
\* returns an error (its reader fails, or the parser gives up on the input)
\* the node it returns is nil.
HtmlParse(body) ==
    IF body = BodyDeep THEN NilDoc
    ELSE IF body = BodyEmpty
    THEN Node("", <<>>,
              << Node("html", <<>>,
                      << Node("head", <<>>, <<>>), Node("body", <<>>, <<>>) >>) >>)
    ELSE Node("", <<>>,
              << Node("html", <<>>,
                      << Node("head", <<>>, <<>>),
                         Node("body", <<>>,
                              << Node("a", <<Attribute(HrefLit, <<"/", "x">>)>>, <<>>),
                                 Node("link", <<Attribute(<<"H", "R", "E", "F">>, <<"y">>)>>,
                                      <<>>) >>) >>) >>)

----------------------------------------------------------------------------
(* Startup: the flag loop of main.  A flag is modelled after the split on  *)
(* "=" and ",": [name, vals].                                              *)

\* strings.ToLower on the texts that occur on the command line
LowerText(s) ==
    CASE s = "F1" -> "f1"
      [] s = "-C" -> "-c"
      [] OTHER    -> s

\* line 171: the whole flag is lowercased before it is split
LowerFlag(f) ==
    [name |-> LowerText(f.name),
     vals |-> [i \in 1..Len(f.vals) |-> LowerText(f.vals[i])]]

FlagC          == [name |-> "-c", vals |-> <<>>]
FlagUpperC     == [name |-> "-C", vals |-> <<>>]
FlagV          == [name |-> "-v", vals |-> <<>>]
OutFile(paths) == [name |-> "--out-file", vals |-> paths]
OutUrl(urls)   == [name |-> "--out-url", vals |-> urls]

CollectorURL == "http://c"

ArgLists ==
    { <<>>,
      << FlagV, OutFile(<<"F1">>) >>,
      << FlagC, OutFile(<<"f1", "f2">>), OutUrl(<<CollectorURL>>) >>,
      << FlagUpperC, OutUrl(<<BadURL>>) >> }

\* sets of paths os.OpenFile refuses
Unopenable == { {}, {"f2"} }

FileSink(path) == [kind |-> "file", target |-> path]
HttpSink(url)  == [kind |-> "http", target |-> url]

OpenFiles(paths, bad) ==
    LET F[i \in 0..Len(paths)] ==
            IF i = 0 THEN [outs |-> <<>>, log |-> <<>>]
            ELSE IF paths[i] \in bad
                 THEN [outs |-> F[i - 1].outs,
                       log  |-> Append(F[i - 1].log, "err-open")]
                 ELSE [outs |-> Append(F[i - 1].outs, FileSink(paths[i])),
                       log  |-> F[i - 1].log]
    IN  F[Len(paths)]

HttpOutputs(urls) == [i \in 1..Len(urls) |-> HttpSink(urls[i])]

ParseFlags(given, bad) ==
    LET F[i \in 0..Len(given)] ==
            IF i = 0 THEN [cache |-> FALSE, outs |-> <<>>, log |-> <<>>]
            ELSE LET prev == F[i - 1]
                     flag == LowerFlag(given[i])
                 IN  CASE flag.name = "-c" ->
                            [prev EXCEPT !.cache = TRUE]
                       [] flag.name \in {"-h", "-l", "-v"} ->
                            [prev EXCEPT !.log = Append(@, flag.name)]
                       [] flag.name = "--out-file" ->
                            LET o == OpenFiles(flag.vals, bad)
                            IN  [prev EXCEPT !.outs = @ \o o.outs,
                                             !.log  = @ \o o.log]
                       [] flag.name = "--out-url" ->
                            [prev EXCEPT !.outs = @ \o HttpOutputs(flag.vals)]
                       [] OTHER -> prev
    IN  F[Len(given)]

----------------------------------------------------------------------------
(* Assets and their JSON record.  A record is a sequence of bytes; a byte  *)
(* is [k, v] so that a record has an inner structure that truncation or    *)
(* interleaving destroys.                                                  *)

Byte(k, v) == [k |-> k, v |-> v]

Marshal(a) ==
    << Byte("{", <<>>),
       Byte("address", a.Address),
       Byte("data", a.Data),
       Byte("references", a.References),
       Byte("}", <<>>) >>

BuildAssetAlways(where, rawResponse, cache) ==
    [Address    |-> where,
     Data       |-> rawResponse,
     References |-> crawl(HtmlParse(rawResponse))]

BuildAsset(where, rawResponse, cache) ==
    [Address    |-> where,
     Data       |-> IF cache THEN rawResponse ELSE <<>>,
     References |-> crawl(HtmlParse(rawResponse))]

NoAsset == [Address |-> "", Data |-> <<>>, References |-> <<>>]

----------------------------------------------------------------------------
(* Outputs.  Write returns [state, n, err]: the new state of the sink, the *)
(* byte count and whether an error is returned.                            *)

\* (*os.File).Write on a file opened with O_APPEND; one call is atomic
FileAppendTruncating(content, p, outcome) ==
    IF outcome = "ok"
    THEN [state |-> content \o SubSeq(p, 1, Len(p) - 1), n |-> Len(p),
          err |-> FALSE, log |-> <<>>]
    ELSE [state |-> content, n |-> 0, err |-> TRUE, log |-> <<>>]

FileAppend(content, p, outcome) ==
    IF outcome = "ok"
    THEN [state |-> content \o p, n |-> Len(p), err |-> FALSE, log |-> <<>>]
    ELSE [state |-> content, n |-> 0, err |-> TRUE, log |-> <<>>]

SinkRequest(sendTo, p) ==
    [method |-> "GET",
     url    |-> sendTo,
     body   |-> p,
     header |-> [From |-> FromValue, UserAgent |-> userAgent]]

\* httpOutput.Write: outcome is what client.Do returns for the request
HttpWrite(requests, sendTo, p, outcome) ==
    IF ~ValidURL(sendTo)
    THEN [state |-> requests, n |-> 0, err |-> TRUE, log |-> <<"err-output-request">>]
    ELSE IF outcome = "ok"
         THEN [state |-> Append(requests, SinkRequest(sendTo, p)),
               n |-> Len(p), err |-> FALSE, log |-> <<>>]
         ELSE [state |-> Append(requests, SinkRequest(sendTo, p)),
               n |-> 0, err |-> TRUE, log |-> <<>>]

\* the io.Writer interface: dispatch on the dynamic type of the output
Write(sink, state, p, outcome) ==
    IF sink.kind = "file"
    THEN FileAppend(state, p, outcome)
    ELSE HttpWrite(state, sink.target, p, outcome)

----------------------------------------------------------------------------
(* The pipeline: main and the fetch goroutines.                            *)

Alive == exitStatus = NoExit

\* the request fetch builds: lines 98, 102, 103
FetchRequest(where) ==
    [method |-> "GET",
     url    |-> where,
     header |-> [From |-> FromValue, UserAgent |-> userAgent]]

NoRequest == [method |-> "", url |-> "", header |-> [From |-> "", UserAgent |-> ""]]

Token(line, err) == [text |-> line, err |-> err]

\* group.Add(1), line 221
Add(counter) == counter + 1

DoneForgotten(counter) == counter

\* group.Done(), deferred at line 94: it runs on every way out of fetch,
\* a panic included
Done(counter) == counter - 1

NewTask(line) ==
    [pc          |-> "new",       \* "new", "do", "read", "write", "done", "panic"
     where       |-> line,
     request     |-> NoRequest,
     attempts    |-> 0,           \* calls of client.Do
     status      |-> 0,           \* status code of the response, 0: none
     rawResponse |-> <<>>,
     built       |-> FALSE,
     asset       |-> NoAsset,
     idx         |-> 0,           \* position of the range loop over outputs
     offered     |-> <<>>,        \* indices of the outputs Write was called on
     results     |-> <<>>,        \* what each of these calls returned
     failedAt    |-> "none",      \* stage of the failure: request, network, body,
                                  \* parse, write
     log         |-> <<>>]

Init ==
    /\ mainPc = "startup"
    /\ shouldCache = FALSE
    /\ outputs = <<>>
    /\ scanned = <<>>
    /\ scanErr = FALSE
    /\ group = 0
    /\ tasks = <<>>
    /\ sinks = <<>>
    /\ exitStatus = NoExit
    /\ mainLog = <<>>
    /\ args = <<>>
    /\ cdoc = Leaf(<<>>)
    /\ crefs = <<>>
    /\ ccrawled = FALSE

\* main, lines 168-206: configuration and the flag loop.  args is what
\* flag.Args() returns; main never calls flag.Parse(), the model leaves the
\* returned list open (the empty list included).
InFlagLoopOrLater(pc) == pc \in {"startup", "reading"}

\* the flag loop (lines 170-206) runs once, before the Scanner is created
\* at line 207
InFlagLoop(pc) == pc = "startup"

StartupWith(lists) ==
    /\ Alive
    /\ InFlagLoop(mainPc)
    /\ \E given \in lists, bad \in Unopenable :
          LET r == ParseFlags(given, bad)
          IN  /\ args' = given
              /\ shouldCache' = r.cache
              /\ outputs' = r.outs
              /\ sinks' = [i \in 1..Len(r.outs) |-> <<>>]
              /\ mainLog' = mainLog \o r.log
    /\ mainPc' = "reading"
    /\ UNCHANGED <<scanned, scanErr, group, tasks, exitStatus>>
    /\ UNCHANGED crawlVars

Startup == StartupWith(ArgLists)

\* the flag loop when flag.Args() is empty, as it is when flag.Parse() was
\* not called
StartupNoFlags == StartupWith({<<>>})

IsSentinelNever(line) == FALSE

IsSentinelLoose(line) == line \in {Sentinel, UpperQuit, PaddedQuit}

\* the test of line 218
IsSentinel(line) == line = Sentinel

\* one iteration of the loop: Scan() returns a token, Err() is nil, the
\* line is not the sentinel: group.Add(1); go fetch(nextLine, group)
Dispatch(line) ==
    /\ Alive
    /\ mainPc = "reading"
    /\ Len(tasks) < MaxTasks
    /\ ~scanErr
    /\ ~IsSentinel(line)
    /\ scanned' = Append(scanned, Token(line, FALSE))
    /\ group' = Add(group)
    /\ tasks' = Append(tasks, NewTask(line))
    /\ UNCHANGED <<mainPc, shouldCache, outputs, scanErr, sinks, exitStatus, mainLog>>
    /\ UNCHANGED args
    /\ UNCHANGED crawlVars

\* one iteration of the loop: the line is the sentinel, break
ScanQuit(line) ==
    /\ Alive
    /\ mainPc = "reading"
    /\ ~scanErr
    /\ IsSentinel(line)
    /\ scanned' = Append(scanned, Token(line, FALSE))
    /\ mainPc' = "wait"
    /\ UNCHANGED <<shouldCache, outputs, scanErr, group, tasks, sinks, exitStatus, mainLog>>
    /\ UNCHANGED args
    /\ UNCHANGED crawlVars

\* one iteration of the loop: Scan() returns a buffered token after the
\* reader failed, Err() is not nil: log, continue.  The Scanner's error is
\* sticky.
ScanErrLine(line) ==
    /\ Alive
    /\ mainPc = "reading"
    /\ Cardinality({i \in 1..Len(scanned) : scanned[i].err}) < MaxErrLines
    /\ scanned' = Append(scanned, Token(line, TRUE))
    /\ scanErr' = TRUE
    /\ mainLog' = Append(mainLog, "err-scan")
    /\ UNCHANGED <<mainPc, shouldCache, outputs, group, tasks, sinks, exitStatus>>
    /\ UNCHANGED args
    /\ UNCHANGED crawlVars

\* Scan() returns false: end of stream, or no token left after an error
ScanEnd ==
    /\ Alive
    /\ mainPc = "reading"
    /\ mainPc' = "wait"
    /\ UNCHANGED <<shouldCache, outputs, scanned, scanErr, group, tasks, sinks,
                   exitStatus, mainLog>>
    /\ UNCHANGED args
    /\ UNCHANGED crawlVars

WaitPassesAlways(counter) == TRUE

\* group.Wait() returns when the counter is zero
WaitPasses(counter) == counter = 0

\* line 224 and the return of main
Wait ==
    /\ Alive
    /\ mainPc = "wait"
    /\ WaitPasses(group)
    /\ mainPc' = "exited"
    /\ exitStatus' = 0
    /\ UNCHANGED <<shouldCache, outputs, scanned, scanErr, group, tasks, sinks, mainLog>>
    /\ UNCHANGED args
    /\ UNCHANGED crawlVars

----------------------------------------------------------------------------
(* fetch *)

TaskIds == 1..Len(tasks)

ReturnAndRetry(t, stage, msg) ==
    [tasks EXCEPT ![t].pc = "do",
                  ![t].failedAt = stage,
                  ![t].log = Append(@, msg)]

\* a return of fetch: the deferred group.Done() runs
Return(t, stage, msg) ==
    [tasks EXCEPT ![t].pc = "done",
                  ![t].failedAt = stage,
                  ![t].log = Append(@, msg)]

\* lines 95-103: log, build the request, add the headers.  When
\* http.NewRequest fails the error is logged and execution goes on to
\* request.Header.Add on a nil request: the goroutine panics, the deferred
\* group.Done() runs.
FetchNewRequest(t) ==
    /\ Alive
    /\ t \in TaskIds
    /\ tasks[t].pc = "new"
    /\ IF ValidURL(tasks[t].where)
       THEN /\ tasks' = [tasks EXCEPT ![t].pc = "do",
                                      ![t].request = FetchRequest(tasks[t].where),
                                      ![t].log = Append(@, "fetching")]
            /\ UNCHANGED group
       ELSE /\ tasks' = [tasks EXCEPT ![t].pc = "panic",
                                      ![t].failedAt = "request",
                                      ![t].log = @ \o <<"fetching", "err-request">>]
            /\ group' = Done(group)
    /\ UNCHANGED <<mainPc, shouldCache, outputs, scanned, scanErr, sinks, exitStatus, mainLog>>
    /\ UNCHANGED args
    /\ UNCHANGED crawlVars

\* lines 104-108: client.Do
FetchDo(t) ==
    /\ Alive
    /\ t \in TaskIds
    /\ tasks[t].pc = "do"
    /\ \/ \E r \in Responses :
             /\ HasScheme(tasks[t].where)
             /\ tasks' = [tasks EXCEPT ![t].pc = "read",
                                       ![t].attempts = @ + 1,
                                       ![t].status = r.status]
             /\ UNCHANGED group
       \/ /\ tasks' = [Return(t, "network", "err-fetch") EXCEPT ![t].attempts = @ + 1]
          /\ group' = Done(group)
    /\ UNCHANGED <<mainPc, shouldCache, outputs, scanned, scanErr, sinks, exitStatus, mainLog>>
    /\ UNCHANGED args
    /\ UNCHANGED crawlVars

\* lines 110-125: io.ReadAll, html.Parse, crawl, the asset, json.Marshal.
\* The error of html.Parse is dropped; on a nil document crawl dereferences
\* doc.Attr: the goroutine panics, the deferred group.Done() runs.
FetchReadAll(t) ==
    /\ Alive
    /\ t \in TaskIds
    /\ tasks[t].pc = "read"
    /\ \/ /\ tasks' = Return(t, "body", "err-read")
          /\ group' = Done(group)
       \/ \E r \in Responses :
            /\ r.status = tasks[t].status
            /\ IF HtmlParse(r.body) = NilDoc
               THEN /\ tasks' = [tasks EXCEPT ![t].pc = "panic",
                                              ![t].rawResponse = r.body,
                                              ![t].failedAt = "parse"]
                    /\ group' = Done(group)
               ELSE /\ tasks' = [tasks EXCEPT
                                    ![t].pc = "write",
                                    ![t].rawResponse = r.body,
                                    ![t].built = TRUE,
                                    ![t].asset = BuildAsset(tasks[t].where, r.body, shouldCache),
                                    ![t].idx = 1]
                    /\ UNCHANGED group
    /\ UNCHANGED <<mainPc, shouldCache, outputs, scanned, scanErr, sinks, exitStatus, mainLog>>
    /\ UNCHANGED args
    /\ UNCHANGED crawlVars

StopsNever(err) == FALSE

\* lines 128-131: a Write error ends the loop and the task
StopsOnError(err) == err

\* lines 126-131: one iteration of the range loop over outputs
FetchWrite(t) ==
    /\ Alive
    /\ t \in TaskIds
    /\ tasks[t].pc = "write"
    /\ tasks[t].idx <= Len(outputs)
    /\ \E outcome \in {"ok", "err"} :
          LET i == tasks[t].idx
              w == Write(outputs[i], sinks[i], Marshal(tasks[t].asset), outcome)
              offered == [tasks EXCEPT ![t].offered = Append(@, i),
                                       ![t].results = Append(@, IF w.err THEN "err" ELSE "ok"),
                                       ![t].log = @ \o w.log]
          IN  /\ sinks' = [sinks EXCEPT ![i] = w.state]
              /\ IF StopsOnError(w.err)
                 THEN /\ tasks' = [offered EXCEPT ![t].pc = "done",
                                                  ![t].failedAt = "write",
                                                  ![t].log = Append(@, "err-output")]
                      /\ group' = Done(group)
                 ELSE /\ tasks' = [offered EXCEPT ![t].idx = i + 1]
                      /\ UNCHANGED group
    /\ UNCHANGED <<mainPc, shouldCache, outputs, scanned, scanErr, exitStatus, mainLog>>
    /\ UNCHANGED args
    /\ UNCHANGED crawlVars

\* line 133 and the normal end of fetch
FetchReturn(t) ==
    /\ Alive
    /\ t \in TaskIds
    /\ tasks[t].pc = "write"
    /\ tasks[t].idx > Len(outputs)
    /\ tasks' = [tasks EXCEPT ![t].pc = "done", ![t].log = Append(@, "success")]
    /\ group' = Done(group)
    /\ UNCHANGED <<mainPc, shouldCache, outputs, scanned, scanErr, sinks, exitStatus, mainLog>>
    /\ UNCHANGED args
    /\ UNCHANGED crawlVars

\* the end of a panic in a goroutine: after the deferred calls have run
\* the runtime prints the panic and ends the process with status 2, unless
\* main has returned in between
Crash(t) ==
    /\ Alive
    /\ t \in TaskIds
    /\ tasks[t].pc = "panic"
    /\ exitStatus' = 2
    /\ UNCHANGED <<mainPc, shouldCache, outputs, scanned, scanErr, group, tasks, sinks, mainLog>>
    /\ UNCHANGED args
    /\ UNCHANGED crawlVars

Next ==
    \/ Startup
    \/ \E line \in Lines : Dispatch(line)
    \/ \E line \in Lines : ScanQuit(line)
    \/ \E line \in ErrLines : ScanErrLine(line)
    \/ ScanEnd
    \/ Wait
    \/ \E t \in 1..MaxTasks : FetchNewRequest(t)
    \/ \E t \in 1..MaxTasks : FetchDo(t)
    \/ \E t \in 1..MaxTasks : FetchReadAll(t)
    \/ \E t \in 1..MaxTasks : FetchWrite(t)
    \/ \E t \in 1..MaxTasks : FetchReturn(t)
    \/ \E t \in 1..MaxTasks : Crash(t)

Spec == Init /\ [][Next]_vars

\* The program started without flags, reading any line: no output is
\* registered, the range loop of fetch has no iteration.
NextNoFlags ==
    \/ StartupNoFlags
    \/ \E line \in AllLines : Dispatch(line)
    \/ \E line \in AllLines : ScanQuit(line)
    \/ \E line \in ErrLines : ScanErrLine(line)
    \/ ScanEnd
    \/ Wait
    \/ \E t \in 1..MaxTasks : FetchNewRequest(t)
    \/ \E t \in 1..MaxTasks : FetchDo(t)
    \/ \E t \in 1..MaxTasks : FetchReadAll(t)
    \/ \E t \in 1..MaxTasks : FetchReturn(t)
    \/ \E t \in 1..MaxTasks : Crash(t)

SpecNoFlags == Init /\ [][NextNoFlags]_vars

----------------------------------------------------------------------------
(* SpecCrawl: crawl applied to every document tree within the bounds.  The *)
(* tree is grown one node or one attribute at a time, as the parser does.  *)

Tags == {"a", "div"}

AttrPool ==
    { Attribute(HrefLit, <<"a">>),
      Attribute(<<"h", "R", "e", "F">>, <<" ", "B", " ">>),
      Attribute(<<"x", "h", "r", "e", "f">>, <<"x">>),
      Attribute(<<"s", "r", "c">>, HrefLit) }

RECURSIVE Paths(_)
Paths(doc) ==
    {<<>>} \cup UNION { { <<k>> \o p : p \in Paths(doc.Kids[k]) } : k \in 1..Len(doc.Kids) }

RECURSIVE NodeAt(_, _)
NodeAt(doc, path) ==
    IF path = <<>> THEN doc ELSE NodeAt(doc.Kids[Head(path)], Tail(path))

RECURSIVE AttrCount(_)
AttrCount(doc) ==
    LET S[k \in 0..Len(doc.Kids)] ==
            IF k = 0 THEN 0 ELSE S[k - 1] + AttrCount(doc.Kids[k])
    IN  Len(doc.Attr) + S[Len(doc.Kids)]

NodeCount(doc) == Cardinality(Paths(doc))

RECURSIVE AddKid(_, _, _)
AddKid(doc, path, tag) ==
    IF path = <<>>
    THEN [doc EXCEPT !.Kids = Append(@, Node(tag, <<>>, <<>>))]
    ELSE [doc EXCEPT !.Kids[Head(path)] = AddKid(@, Tail(path), tag)]

RECURSIVE AddAttr(_, _, _)
AddAttr(doc, path, attr) ==
    IF path = <<>>
    THEN [doc EXCEPT !.Attr = Append(@, attr)]
    ELSE [doc EXCEPT !.Kids[Head(path)] = AddAttr(@, Tail(path), attr)]

GrowKid(path, tag) ==
    /\ path \in Paths(cdoc)
    /\ NodeCount(cdoc) < MaxNodes
    /\ cdoc' = AddKid(cdoc, path, tag)
    /\ crefs' = <<>>
    /\ ccrawled' = FALSE
    /\ UNCHANGED pipeVars

GrowAttr(path, attr) ==
    /\ path \in Paths(cdoc)
    /\ AttrCount(cdoc) < MaxAttrs
    /\ cdoc' = AddAttr(cdoc, path, attr)
    /\ crefs' = <<>>
    /\ ccrawled' = FALSE
    /\ UNCHANGED pipeVars

Crawl ==
    /\ ~ccrawled
    /\ crefs' = crawl(cdoc)
    /\ ccrawled' = TRUE
    /\ UNCHANGED cdoc
    /\ UNCHANGED pipeVars

NextCrawl ==
    \/ \E path \in Paths(cdoc), tag \in Tags : GrowKid(path, tag)
    \/ \E path \in Paths(cdoc), attr \in AttrPool : GrowAttr(path, attr)
    \/ Crawl

SpecCrawl == Init /\ [][NextCrawl]_vars

----------------------------------------------------------------------------
(* Properties of crawl (SpecCrawl) *)

\* the attribute positions of a tree: <<path of the node, index in Attr>>
Positions(doc) ==
    UNION { { <<p, i>> : i \in 1..Len(NodeAt(doc, p).Attr) } : p \in Paths(doc) }

AttrAt(doc, pos) == NodeAt(doc, pos[1]).Attr[pos[2]]

\* the names that are href up to letter case
IsHrefName(k) ==
    /\ Len(k) = 4
    /\ k[1] \in {"h", "H"}
    /\ k[2] \in {"r", "R"}
    /\ k[3] \in {"e", "E"}
    /\ k[4] \in {"f", "F"}

HrefPositions(doc) == { pos \in Positions(doc) : IsHrefName(AttrAt(doc, pos).Key) }

IsPrefix(p, q) == Len(p) <= Len(q) /\ SubSeq(q, 1, Len(p)) = p

\* node p is visited before node q in a pre-order walk
PathBefore(p, q) ==
    /\ p # q
    /\ \/ IsPrefix(p, q)
       \/ \E k \in 1..Len(p) :
            /\ k <= Len(q)
            /\ SubSeq(p, 1, k - 1) = SubSeq(q, 1, k - 1)
            /\ p[k] < q[k]

PosBefore(a, b) ==
    \/ a[1] = b[1] /\ a[2] < b[2]
    \/ PathBefore(a[1], b[1])

Rank(doc, pos) ==
    1 + Cardinality({ q \in HrefPositions(doc) : PosBefore(q, pos) })

Occurrences(seq, v) == Cardinality({ i \in 1..Len(seq) : seq[i] = v })

\* C8: crawl returns the values of all href attributes of the tree in
\* pre-order (own attributes in attribute order, then the child subtrees
\* from first to last): as many entries as there are such attributes,
\* duplicates kept, nothing for a tree without any, whatever the tag names.
C8_PreOrderHrefs ==
    ccrawled =>
        /\ Len(crefs) = Cardinality(HrefPositions(cdoc))
        /\ \A pos \in HrefPositions(cdoc) :
              crefs[Rank(cdoc, pos)] = AttrAt(cdoc, pos).Val

\* a crawled tree with href attributes on a child and on its parent node,
\* two of them carrying the same value
C8_Witness ==
    /\ ccrawled
    /\ Len(crefs) >= 2
    /\ \E a, b \in HrefPositions(cdoc) :
          /\ Len(a[1]) < Len(b[1])
          /\ AttrAt(cdoc, a).Val = AttrAt(cdoc, b).Val

\* C9: the attribute name is matched without regard to letter case and as
\* a whole name, and the value is appended as it stands: every value occurs
\* in the result exactly as often as it is the value of an attribute whose
\* name is href in some letter case.
C9_CaseInsensitiveName ==
    ccrawled =>
        \A v \in { AttrAt(cdoc, pos).Val : pos \in Positions(cdoc) }
                 \cup { crefs[i] : i \in 1..Len(crefs) } :
            Occurrences(crefs, v)
                = Cardinality({ pos \in Positions(cdoc) :
                                  /\ IsHrefName(AttrAt(cdoc, pos).Key)
                                  /\ AttrAt(cdoc, pos).Val = v })

\* a crawled tree with an upper-case HREF whose value has upper-case
\* letters and blanks, next to a name that only contains href
C9_Witness ==
    /\ ccrawled
    /\ \E pos \in Positions(cdoc) :
          /\ AttrAt(cdoc, pos).Key = <<"h", "R", "e", "F">>
          /\ AttrAt(cdoc, pos).Val = <<" ", "B", " ">>
          /\ crefs = << <<" ", "B", " ">> >>
    /\ \E pos \in Positions(cdoc) :
          AttrAt(cdoc, pos).Key = <<"x", "h", "r", "e", "f">>

----------------------------------------------------------------------------
(* Properties of the pipeline (Spec) *)

Range(seq) == { seq[i] : i \in 1..Len(seq) }

FileSinks == { i \in 1..Len(outputs) : outputs[i].kind = "file" }
HttpSinks == { i \in 1..Len(outputs) : outputs[i].kind = "http" }

\* the tasks whose call of Write on output i returned without error
Delivered(i) ==
    { t \in TaskIds : Len(tasks[t].results) >= i /\ tasks[t].results[i] = "ok" }

\* the tasks that called Write on output i
Offered(i) == { t \in TaskIds : i \in Range(tasks[t].offered) }

FetchStep(t) ==
    \/ FetchNewRequest(t)
    \/ FetchDo(t)
    \/ FetchReadAll(t)
    \/ FetchWrite(t)
    \/ FetchReturn(t)

\* C1: a task that fails before the body is read completely (request
\* construction with its URL validation, round trip, body read) logs the
\* error and returns: no asset, no Write on any output, the process goes on.
C1_EarlyFailureReturns ==
    \A t \in TaskIds :
        tasks[t].failedAt \in {"request", "network", "body"} =>
            /\ tasks[t].pc = "done"
            /\ tasks[t].log # <<>>
            /\ tasks[t].log[Len(tasks[t].log)] \in {"err-request", "err-fetch", "err-read"}
            /\ ~tasks[t].built
            /\ tasks[t].offered = <<>>
            /\ exitStatus \in {NoExit, 0}

C3_SinksInOrderUntilFailure ==
    /\ \A t \in TaskIds :
          LET o == tasks[t].offered
              r == tasks[t].results
          IN  /\ Len(o) <= Len(outputs)
              /\ Len(r) = Len(o)
              /\ \A j \in 1..Len(o) : o[j] = j
              /\ \A j \in 1..(Len(r) - 1) : r[j] = "ok"
              /\ (tasks[t].pc = "done" /\ tasks[t].failedAt = "none")
                    => (Len(o) = Len(outputs) /\ \A j \in 1..Len(r) : r[j] = "ok")
    /\ \A i \in FileSinks :
          Len(sinks[i]) = 5 * Cardinality(Delivered(i))
    /\ \A i \in HttpSinks :
          Len(sinks[i]) = IF ValidURL(outputs[i].target)
                          THEN Cardinality(Offered(i)) ELSE 0

\* outputs [file, file, http]: one task stopped at the first output, one
\* task wrote to all three
C3_Witness ==
    /\ Len(outputs) = 3
    /\ outputs[1].kind = "file" /\ outputs[2].kind = "file" /\ outputs[3].kind = "http"
    /\ Len(tasks) = 2
    /\ tasks[1].pc = "done" /\ tasks[1].results = <<"err">>
    /\ tasks[2].pc = "done" /\ tasks[2].results = <<"ok", "ok", "ok">>
    /\ Len(sinks[2]) = 5 /\ Len(sinks[3]) = 1

\* the orders in which the tasks of a set can be listed
Orders(S) ==
    { f \in [1..Cardinality(S) -> S] : \A i, j \in 1..Cardinality(S) : f[i] = f[j] => i = j }

\* C4: the content of a file output is the concatenation, in some order, of
\* the complete records of the tasks whose Write on it succeeded: no record
\* is interleaved with another, truncated or duplicated (one Write call per
\* record, an append being atomic).
C4_FileHoldsWholeRecords ==
    \A i \in FileSinks :
        \E f \in Orders(Delivered(i)) :
            sinks[i] = ConcatAll([k \in 1..Cardinality(Delivered(i)) |->
                                     Marshal(tasks[f[k]].asset)])

\* two tasks wrote different records to the same file, the second task first
C4_Witness ==
    /\ 1 \in FileSinks
    /\ Len(tasks) = 2
    /\ tasks[1].pc = "done" /\ tasks[2].pc = "done"
    /\ tasks[1].asset # tasks[2].asset
    /\ sinks[1] = Marshal(tasks[2].asset) \o Marshal(tasks[1].asset)

\* C5: a failure in one task leaves every other task able to go on and
\* leaves the exit status alone.
C5_ErrorsIsolated ==
    \A a, b \in TaskIds :
        (a # b /\ tasks[a].failedAt # "none") =>
            /\ exitStatus \in {NoExit, 0}
            /\ tasks[b].pc \notin {"done", "panic"} => ENABLED FetchStep(b)

\* C6: whatever number of fetches failed, the process ends only by main
\* returning after the barrier, with status 0.
C6_EndsWithStatusZero ==
    ~Alive => (mainPc = "exited" /\ exitStatus = 0)

\* C7: the data of every asset is empty when shouldCache is off and is the
\* response body when it is on, with one value of the flag for all assets
\* of the run; the data bytes the outputs received are those of the assets.
C7_DataFollowsCacheFlag ==
    /\ \A t \in TaskIds :
          tasks[t].built =>
              tasks[t].asset.Data = IF shouldCache THEN tasks[t].rawResponse ELSE <<>>
    /\ \A i \in FileSinks :
          \A k \in 1..Len(sinks[i]) :
              sinks[i][k].k = "data" =>
                  /\ ~shouldCache => sinks[i][k].v = <<>>
                  /\ shouldCache => \E t \in Delivered(i) : sinks[i][k].v = tasks[t].rawResponse
    /\ \A i \in HttpSinks :
          \A k \in 1..Len(sinks[i]) :
              LET d == sinks[i][k].body[3].v
              IN  /\ ~shouldCache => d = <<>>
                  /\ shouldCache => \E t \in Offered(i) : d = tasks[t].rawResponse

\* caching on: a file and the collector received a record whose data is a
\* non-empty body
C7_Witness ==
    /\ shouldCache
    /\ \E i \in FileSinks : \E k \in 1..Len(sinks[i]) :
          sinks[i][k] = Byte("data", BodyLinks)
    /\ \E i \in HttpSinks : \E k \in 1..Len(sinks[i]) :
          sinks[i][k].body[3] = Byte("data", BodyLinks)

\* C10: every Write on an HTTP output issues one POST to the output's URL
\* with the given bytes as body and the headers of the fetch requests, and
\* returns without error exactly when the round trip did.
C10_HttpSinkPosts ==
    \A i \in HttpSinks :
        /\ Len(sinks[i]) = Cardinality(Offered(i))
        /\ \A k \in 1..Len(sinks[i]) :
              /\ sinks[i][k].method = "POST"
              /\ sinks[i][k].url = outputs[i].target
              /\ sinks[i][k].header = FetchRequest(GoodURL).header
              /\ \E t \in Offered(i) : sinks[i][k].body = Marshal(tasks[t].asset)

----------------------------------------------------------------------------
(* Properties of the pipeline, continued *)

ErrTokens == { i \in 1..Len(scanned) : scanned[i].err }

\* C11: a line-read error is logged, no task is started for that line, and
\* main keeps reading: while it is in the loop the next line read from the
\* stream is still dispatched.
C11_ReadingContinuesAfterError ==
    /\ Cardinality({ k \in 1..Len(mainLog) : mainLog[k] = "err-scan" })
          = Cardinality(ErrTokens)
    /\ Len(tasks) = Len(scanned) - Cardinality(ErrTokens)
                      - Cardinality({ i \in 1..Len(scanned) : IsSentinel(scanned[i].text)
                                                              /\ ~scanned[i].err })
    /\ (mainPc = "reading" /\ Len(tasks) < MaxTasks) => ENABLED Dispatch(GoodURL)

\* the sinks the command line names, every file opened: in the order given
NamedSinks(given) ==
    ConcatAll([i \in 1..Len(given) |->
        CASE LowerText(given[i].name) = "--out-file" ->
                 [k \in 1..Len(given[i].vals) |-> FileSink(given[i].vals[k])]
          [] LowerText(given[i].name) = "--out-url" ->
                 [k \in 1..Len(given[i].vals) |-> HttpSink(given[i].vals[k])]
          [] OTHER -> <<>>])

\* seq without the positions of the set dropped
Without(seq, dropped) ==
    LET F[i \in 0..Len(seq)] ==
            IF i = 0 THEN <<>>
            ELSE IF i \in dropped THEN F[i - 1] ELSE Append(F[i - 1], seq[i])
    IN  F[Len(seq)]

\* C12: after startup the registration list holds, in the order given, one
\* file sink per --out-file path that opened and one HTTP sink per --out-url
\* URL; each path that failed to open is logged and left out, the others
\* keep their order, and main goes on to read its input.
C12_SinksAsGiven ==
    mainPc # "startup" =>
        LET named == NamedSinks(args)
            files == { i \in 1..Len(named) : named[i].kind = "file" }
        IN  \E dropped \in SUBSET files :
                /\ Cardinality(dropped)
                      = Cardinality({ k \in 1..Len(mainLog) : mainLog[k] = "err-open" })
                /\ outputs = Without(named, dropped)

\* the task has read the body of its response to the end
BodyRead(t) ==
    /\ tasks[t].status # 0
    /\ tasks[t].pc \in {"write", "done", "panic"}
    /\ tasks[t].failedAt # "body"

\* C13: a task whose body was read completely and whose HTML parse failed
\* goes on as after a successful parse: it does not crash, it builds the
\* asset from whatever tree there is and hands it to the outputs.
C13_ParseFailureLikeSuccess ==
    \A t \in TaskIds :
        (BodyRead(t) /\ HtmlParse(tasks[t].rawResponse) = NilDoc) =>
            /\ tasks[t].pc # "panic"
            /\ tasks[t].built
            /\ exitStatus \in {NoExit, 0}


\* the lines main read without error that are not the sentinel
AcceptedLines ==
    { i \in 1..Len(scanned) : ~scanned[i].err /\ ~IsSentinel(scanned[i].text) }

\* C14: as many tasks were started as lines were accepted, every task's
\* address is a line main read (never a reference found in a page), a task
\* calls client.Do at most once, also after a failure, and calls Write on
\* an output at most once, so that an output holds at most one record per
\* accepted line.
C14_OneAttemptPerLine ==
    /\ Len(tasks) = Cardinality(AcceptedLines)
    /\ \A t \in TaskIds :
          /\ tasks[t].where \in { scanned[i].text : i \in AcceptedLines }
          /\ tasks[t].attempts <= 1
          /\ tasks[t].pc \in {"read", "write"} => tasks[t].attempts = 1
          /\ tasks[t].failedAt \in {"network", "body"} => tasks[t].pc = "done"
          /\ \A i \in 1..Len(outputs) : Occurrences(tasks[t].offered, i) <= 1
    /\ \A i \in FileSinks : Len(sinks[i]) <= 5 * Cardinality(AcceptedLines)
    /\ \A i \in HttpSinks : Len(sinks[i]) <= Cardinality(AcceptedLines)

\* the process has ended normally with two tasks: one whose only attempt
\* failed in the round trip, one that delivered an asset with references
C14_Witness ==
    /\ mainPc = "exited"
    /\ Len(tasks) = 2
    /\ \E t \in TaskIds :
          /\ tasks[t].failedAt = "network"
          /\ tasks[t].attempts = 1
          /\ tasks[t].offered = <<>>
    /\ \E t \in TaskIds :
          /\ tasks[t].built
          /\ tasks[t].asset.References # <<>>
          /\ tasks[t].attempts = 1
          /\ Len(tasks[t].offered) = Len(outputs)
          /\ Len(outputs) >= 2


\* C15: once the first task has been dispatched no step of main or of a
\* task changes the list of outputs (length, order, elements) or the cache
\* flag, up to the end of the process.
C15_OutputsFrozenAfterDispatch ==
    [][Len(tasks) >= 1 => (outputs' = outputs /\ shouldCache' = shouldCache)]_vars

\* the process has ended; the list of three outputs and the set cache flag
\* were read by two tasks that wrote to the outputs
C15_Witness ==
    /\ mainPc = "exited"
    /\ Len(outputs) = 3
    /\ shouldCache
    /\ Len(tasks) = 2
    /\ \A t \in TaskIds : tasks[t].built /\ tasks[t].offered # <<>>
    /\ \E t \in TaskIds : tasks[t].asset.Data # <<>>


\* the tasks that were dispatched and have not left fetch
Running == { t \in TaskIds : tasks[t].pc \notin {"done", "panic"} }

\* C16: the counter of the WaitGroup equals the number of tasks dispatched
\* and not yet returned; it is never negative, and main is past
\* group.Wait() only when no dispatched task is running.
C16_CounterCountsRunningTasks ==
    /\ group = Cardinality(Running)
    /\ group >= 0
    /\ mainPc = "exited" => Running = {}
    /\ (mainPc = "wait" /\ Running # {}) => ~ENABLED Wait

\* main waits at the barrier with the counter at one: of two tasks one has
\* returned after a failed Write, the other is still running
C16_Witness ==
    /\ mainPc = "wait"
    /\ group = 1
    /\ Len(tasks) = 2
    /\ \E t \in TaskIds : tasks[t].pc = "done" /\ tasks[t].failedAt = "write"
    /\ \E t \in TaskIds : tasks[t].pc = "read"


\* C17: every task that got a response and read its body to the end has
\* built an asset, whatever the status code, and a task that has ended has
\* called Write on the first output exactly once; the references are those
\* of the body, none for an empty body.
C17_AssetWhateverTheStatus ==
    \A t \in TaskIds :
        BodyRead(t) =>
            /\ tasks[t].pc # "panic"
            /\ tasks[t].built
            /\ tasks[t].asset.Address = tasks[t].where
            /\ tasks[t].asset.References = crawl(HtmlParse(tasks[t].rawResponse))
            /\ tasks[t].rawResponse = BodyEmpty => tasks[t].asset.References = <<>>
            /\ (tasks[t].pc = "done" /\ outputs # <<>>) =>
                  Occurrences(tasks[t].offered, 1) = 1


\* C18: only a line that is exactly "quit" stops the reading; every other
\* line read without error, the empty line, "QUIT" and " quit " included,
\* starts one task for that very line and the reading goes on.
C18_ExactSentinel ==
    LET plain    == { i \in 1..Len(scanned) : ~scanned[i].err }
        others   == { i \in plain : scanned[i].text # "quit" }
        canRead  == Alive /\ mainPc = "reading" /\ ~scanErr
    IN  /\ \A i \in plain :
              IF scanned[i].text = "quit"
              THEN i = Len(scanned) /\ mainPc \in {"wait", "exited"}
              ELSE LET t == Cardinality({ j \in others : j <= i })
                   IN  t \in TaskIds /\ tasks[t].where = scanned[i].text
        /\ Len(tasks) = Cardinality(others)
        /\ canRead => /\ ENABLED ScanQuit("quit")
                      /\ ~ENABLED Dispatch("quit")
                      /\ \A line \in {EmptyLine, UpperQuit, PaddedQuit} :
                            ~ENABLED ScanQuit(line)
        /\ (canRead /\ Len(tasks) < MaxTasks) =>
              \A line \in {EmptyLine, UpperQuit, PaddedQuit} : ENABLED Dispatch(line)

\* the empty line and "QUIT" each started a task, then "quit" stopped the
\* reading
C18_Witness ==
    /\ Len(scanned) = 3
    /\ scanned[1] = Token(EmptyLine, FALSE)
    /\ scanned[2] = Token(UpperQuit, FALSE)
    /\ scanned[3] = Token("quit", FALSE)
    /\ Len(tasks) = 2
    /\ tasks[1].where = EmptyLine
    /\ tasks[2].where = UpperQuit
    /\ mainPc = "wait"

====
